---- MODULE Spec2Model ----
(***************************************************************************)
(* Reactive example generation of redoc's MediaTypeModel                   *)
(* (src/services/models/MediaType.ts): the constructor, the computed      *)
(* `examples` getter and generateExamples, together with the schema       *)
(* helpers it calls (discriminator collector, resolver and patcher), the   *)
(* external sampler and the MobX computed-value cache around the getter.   *)
(***************************************************************************)
EXTENDS Integers, Sequences, FiniteSets, TLC

VARIABLES
  info,          \* the OpenAPIMediaType handed to the constructor
  self,          \* the MediaTypeModel's fields after construction
  activeOneOf,   \* SchemaModel.activeOneOf of every oneOf node of self.schema
  memo,          \* MobX bookkeeping of the computed `examples`
  lastRead,      \* what the last read of `examples` gave its caller; NotRead
                 \* before the first read and once a selection write has followed
  trace,         \* the steps the last read ran (empty on a cache hit)
  prevRead,      \* how the last read compares with the read before it, when no
                 \* selection write lies between the two
  everRaised,    \* whether some read has raised an error
  walk,          \* the discriminator collector's walk, when followed node by node
  viewer         \* the JsonViewer component: its data, its DOM and its refs

vars ==
  <<info, self, activeOneOf, memo, lastRead, trace, prevRead, everRaised, walk, viewer>>

(***************************************************************************)
(* Bounds                                                                  *)
(***************************************************************************)
\* largest generatedSamplesMaxDepth tried
MaxDepth == 2
\* how many out-of-range values of activeOneOf are tried per oneOf node
StaleRange == 1

(***************************************************************************)
(* Optional values: <<>> is undefined, <<x>> is x                          *)
(***************************************************************************)
Undefined == <<>>
Some(x) == <<x>>
IsDefined(o) == o # <<>>

(***************************************************************************)
(* JSON values                                                             *)
(***************************************************************************)
Null == [t |-> "null"]
Undef == [t |-> "undef"]
Str(s) == [t |-> "str", s |-> s]
Obj(f) == [t |-> "obj", f |-> f]
Arr(e) == [t |-> "arr", e |-> e, f |-> <<>>]
Ref(p) == [t |-> "ref", s |-> p]
Thrown(e) == [t |-> "throw", err |-> e]

IsThrown(v) == v.t = "throw"

\* typeof v === 'object' && v : objects and arrays, not null
IsJsObject(v) == v.t \in {"obj", "arr"}

\* v[p] = x ; a property write on null or undefined is a TypeError, and so is
\* one on a primitive in strict-mode code
AssignProp(v, p, x) ==
  IF IsJsObject(v)
    THEN [v EXCEPT !.f = [k \in (DOMAIN v.f) \cup {p} |-> IF k = p THEN x ELSE v.f[k]]]
    ELSE Thrown("TypeError")

(***************************************************************************)
(* The schema trees (SchemaModel instances) the media types are built on   *)
(***************************************************************************)
Prop(n, ro, wo, req) == [node |-> n, readOnly |-> ro, writeOnly |-> wo, required |-> req]

NodeIds ==
  {"Pets", "Pet", "Cat", "Dog", "Fish", "Toy", "Ball", "Bone", "Text", "Bad",
   "Any", "Twins", "Kitten"}

SchemaNode(id) ==
  CASE id = "Pets" ->
         [kind |-> "array", title |-> "Pets", discriminatorProp |-> Undefined,
          oneOf |-> <<>>, items |-> Some("Pet"), properties |-> <<>>]
    [] id = "Pet" ->
         [kind |-> "oneOf", title |-> "Pet", discriminatorProp |-> Some("petType"),
          oneOf |-> <<"Cat", "Dog", "Fish">>, items |-> Undefined, properties |-> <<>>]
    [] id = "Cat" ->
         [kind |-> "object", title |-> "Cat", discriminatorProp |-> Undefined,
          oneOf |-> <<>>, items |-> Undefined,
          properties |-> ("petType" :> Prop("Text", FALSE, FALSE, TRUE)
                          @@ "name" :> Prop("Text", FALSE, FALSE, TRUE)
                          @@ "id" :> Prop("Text", TRUE, FALSE, TRUE)
                          @@ "secret" :> Prop("Text", FALSE, TRUE, FALSE))]
    [] id = "Dog" ->
         [kind |-> "object", title |-> "Dog", discriminatorProp |-> Undefined,
          oneOf |-> <<>>, items |-> Undefined,
          properties |-> ("petType" :> Prop("Text", FALSE, FALSE, TRUE)
                          @@ "toy" :> Prop("Toy", FALSE, FALSE, TRUE))]
    [] id = "Fish" ->
         [kind |-> "scalar", title |-> "Fish", discriminatorProp |-> Undefined,
          oneOf |-> <<>>, items |-> Undefined, properties |-> <<>>]
    [] id = "Toy" ->
         [kind |-> "oneOf", title |-> "Toy", discriminatorProp |-> Some("toyType"),
          oneOf |-> <<"Ball", "Bone">>, items |-> Undefined, properties |-> <<>>]
    [] id = "Ball" ->
         [kind |-> "object", title |-> "Ball", discriminatorProp |-> Undefined,
          oneOf |-> <<>>, items |-> Undefined,
          properties |-> ("toyType" :> Prop("Text", FALSE, FALSE, TRUE)
                          @@ "size" :> Prop("Text", FALSE, FALSE, FALSE))]
    [] id = "Bone" ->
         [kind |-> "object", title |-> "Bone", discriminatorProp |-> Undefined,
          oneOf |-> <<>>, items |-> Undefined,
          properties |-> ("toyType" :> Prop("Text", FALSE, FALSE, TRUE)
                          @@ "marrow" :> Prop("Bad", FALSE, TRUE, FALSE))]
    [] id = "Text" ->
         [kind |-> "scalar", title |-> "Text", discriminatorProp |-> Undefined,
          oneOf |-> <<>>, items |-> Undefined, properties |-> <<>>]
    [] id = "Bad" ->
         [kind |-> "malformed", title |-> "Bad", discriminatorProp |-> Undefined,
          oneOf |-> <<>>, items |-> Undefined, properties |-> <<>>]
    [] id = "Any" ->
         [kind |-> "oneOf", title |-> "Any", discriminatorProp |-> Some("kind"),
          oneOf |-> <<>>, items |-> Undefined, properties |-> <<>>]
    [] id = "Twins" ->
         [kind |-> "oneOf", title |-> "Twins", discriminatorProp |-> Some("petType"),
          oneOf |-> <<"Cat", "Kitten">>, items |-> Undefined, properties |-> <<>>]
    [] id = "Kitten" ->
         [kind |-> "object", title |-> "Cat", discriminatorProp |-> Undefined,
          oneOf |-> <<>>, items |-> Undefined,
          properties |-> ("petType" :> Prop("Text", FALSE, FALSE, TRUE)
                          @@ "purr" :> Prop("Text", FALSE, FALSE, TRUE))]

\* the schemas a media type may carry
RootSchemas == {"Pets", "Pet", "Any", "Twins"}

\* direct children of a node: properties, items and every oneOf variant
Children(id) ==
  LET n == SchemaNode(id) IN
    {n.properties[k].node : k \in DOMAIN n.properties}
      \cup {n.items[i] : i \in DOMAIN n.items}
      \cup {n.oneOf[i] : i \in DOMAIN n.oneOf}

\* the oneOf nodes of the tree under id: the nodes that own an activeOneOf cell
RECURSIVE Descendants(_)
Descendants(id) == {id} \cup UNION {Descendants(c) : c \in Children(id)}

OneOfNodes(id) == {n \in Descendants(id) : SchemaNode(n).kind = "oneOf"}

\* the values activeOneOf of a node may hold: its valid indexes (0-based, as in
\* the code) and StaleRange indexes past the end
IndexRange(id) == 0 .. (Len(SchemaNode(id).oneOf) - 1 + StaleRange)

(***************************************************************************)
(* Schema helpers called by MediaTypeModel                                 *)
(***************************************************************************)
\* collectActiveDiscriminatorSelections: depth-first over every node, all
\* variants included, reading each oneOf node's activeOneOf; the result is the
\* set of cells read
RECURSIVE collectActiveDiscriminatorSelections(_)
collectActiveDiscriminatorSelections(id) ==
  (IF SchemaNode(id).kind = "oneOf" THEN {id} ELSE {})
    \cup UNION {collectActiveDiscriminatorSelections(c) : c \in Children(id)}

\* the first variant whatever the node's activeOneOf holds
ActiveVariantFirst(id, sel) == SchemaNode(id).oneOf[1]

\* the variant a oneOf node stands for: oneOf[activeOneOf], or oneOf[0] when
\* the index is out of range
ActiveVariant(id, sel) ==
  LET n == SchemaNode(id) IN
    IF sel[id] \in 0 .. (Len(n.oneOf) - 1) THEN n.oneOf[sel[id] + 1] ELSE n.oneOf[1]

\* getSchemaWithActiveDiscriminators: the schema with every oneOf node replaced
\* by its active variant, recursively
RECURSIVE getSchemaWithActiveDiscriminators(_, _)
getSchemaWithActiveDiscriminators(id, sel) ==
  LET n == SchemaNode(id) IN
    CASE n.kind = "oneOf" ->
           IF n.oneOf = <<>>
             THEN [kind |-> "any", from |-> id]
             ELSE getSchemaWithActiveDiscriminators(ActiveVariant(id, sel), sel)
      [] n.kind = "object" ->
           [kind |-> "object", from |-> id,
            properties |-> [k \in DOMAIN n.properties |->
               [schema |-> getSchemaWithActiveDiscriminators(n.properties[k].node, sel),
                readOnly |-> n.properties[k].readOnly,
                writeOnly |-> n.properties[k].writeOnly,
                required |-> n.properties[k].required]]]
      [] n.kind = "array" ->
           [kind |-> "array", from |-> id,
            items |-> getSchemaWithActiveDiscriminators(n.items[1], sel)]
      [] OTHER -> [kind |-> n.kind, from |-> id]

\* the activeOneOf cells the resolver reads: those on the active path only
RECURSIVE ResolverReads(_, _)
ResolverReads(id, sel) ==
  LET n == SchemaNode(id) IN
    CASE n.kind = "oneOf" ->
           {id} \cup (IF n.oneOf = <<>> THEN {} ELSE ResolverReads(ActiveVariant(id, sel), sel))
      [] n.kind = "object" ->
           UNION {ResolverReads(n.properties[k].node, sel) : k \in DOMAIN n.properties}
      [] n.kind = "array" -> ResolverReads(n.items[1], sel)
      [] OTHER -> {}

\* applyDiscriminatorValues: walks the value and the schema together and sets
\* the discriminator property of every object that stands for a oneOf node to
\* the title of the active variant; a value that does not match is skipped
RECURSIVE applyDiscriminatorValues(_, _, _)
applyDiscriminatorValues(value, id, sel) ==
  LET n == SchemaNode(id) IN
    CASE n.kind = "oneOf" /\ n.oneOf # <<>> ->
           LET variant == ActiveVariant(id, sel)
               tagged == IF value.t = "obj" /\ IsDefined(n.discriminatorProp)
                           THEN AssignProp(value, n.discriminatorProp[1],
                                           Str(SchemaNode(variant).title))
                           ELSE value
           IN applyDiscriminatorValues(tagged, variant, sel)
      [] n.kind = "object" /\ value.t = "obj" ->
           Obj([k \in DOMAIN value.f |->
                  IF k \in DOMAIN n.properties
                    THEN applyDiscriminatorValues(value.f[k], n.properties[k].node, sel)
                    ELSE value.f[k]])
      [] n.kind = "array" /\ value.t = "arr" ->
           [value EXCEPT !.e = [i \in DOMAIN value.e |->
                                  applyDiscriminatorValues(value.e[i], n.items[1], sel)]]
      [] OTHER -> value

(***************************************************************************)
(* The external sampler (openapi-sampler)                                  *)
(***************************************************************************)
\* the free-form scalar the sampler may produce, and what it may put where
\* maxSampleDepth cuts the value off
Fills == {"a", "b"}
Placeholders == {"null", "absent", "scalar"}

Placeholder(ph, fill) ==
  CASE ph = "null" -> Null
    [] ph = "absent" -> Undef
    [] OTHER -> Str(fill)

\* Sampler.sample(schema, options, spec): one value for a resolved schema;
\* raises on a schema it cannot sample
RECURSIVE Sample(_, _, _, _, _)
Sample(schema, options, fill, ph, depth) ==
  CASE schema.kind = "malformed" -> Thrown("GenerationFailure")
    [] schema.kind = "scalar" -> Str(fill)
    [] schema.kind = "any" -> Null
    [] schema.kind = "array" ->
         IF depth > options.maxSampleDepth
           THEN Placeholder(ph, fill)
           ELSE LET e == Sample(schema.items, options, fill, ph, depth + 1) IN
                  IF IsThrown(e) THEN e
                  ELSE IF e = Undef THEN Arr(<<>>) ELSE Arr(<<e>>)
    [] schema.kind = "object" ->
         IF depth > options.maxSampleDepth
           THEN Placeholder(ph, fill)
           ELSE LET kept == {k \in DOMAIN schema.properties :
                               /\ ~(options.skipReadOnly /\ schema.properties[k].readOnly)
                               /\ ~(options.skipWriteOnly /\ schema.properties[k].writeOnly)
                               /\ ~(options.skipNonRequired /\ ~schema.properties[k].required)}
                    kid == [k \in kept |->
                              Sample(schema.properties[k].schema, options, fill, ph, depth + 1)]
                IN IF \E k \in kept : IsThrown(kid[k])
                     THEN Thrown("GenerationFailure")
                     ELSE Obj([k \in {x \in kept : kid[x] # Undef} |-> kid[k]])

(***************************************************************************)
(* Collaborators of the constructor                                        *)
(***************************************************************************)
\* isJsonLike(name)
MediaNames == {"application/json", "text/plain"}
isJsonLike(name) == name = "application/json"

\* parser.deref(x).resolved: a $ref is replaced by the component it names
Components(p) == CASE p = "#/components/examples/pet" -> Str("referenced")
                   [] OTHER -> Null
Deref(x) == IF x.t = "ref" THEN Components(x.s) ELSE x

\* new ExampleModel(parser, {value}, mime, encoding)
ExampleModel(example, mime, encoding) ==
  [value |-> example.value, mime |-> mime, encoding |-> encoding]

\* mapValues(info.examples, example => new ExampleModel(parser, example, name,
\* info.encoding)) (lines 51-54)
mapValues(object, mime, encoding) ==
  [k \in DOMAIN object |-> ExampleModel(object[k], mime, encoding)]

(***************************************************************************)
(* What a read of `examples` gives: a value (a map or undefined) or an     *)
(* error raised to the caller                                              *)
(***************************************************************************)
Returned(v) == [status |-> "ok", val |-> v, err |-> ""]
Raised(e) == [status |-> "throw", val |-> Undefined, err |-> e]
NotRead == [status |-> "none", val |-> Undefined, err |-> ""]

\* the result of running a piece of the getter: its outcome, the steps it ran
\* and the activeOneOf cells it read
Run(out, steps, reads) == [out |-> out, steps |-> steps, reads |-> reads]
Step(op, node) == [op |-> op, node |-> node]

(***************************************************************************)
(* MediaTypeModel                                                          *)
(***************************************************************************)
\* constructor (lines 33-71)
Constructor(parser, name, isRequestType, inf, options) ==
  [name |-> name,
   isRequestType |-> isRequestType,
   schema |-> inf.schema,
   onlyRequiredInSamples |-> options.onlyRequiredInSamples,
   generatedSamplesMaxDepth |-> options.generatedSamplesMaxDepth,
   parser |-> parser,
   encoding |-> inf.encoding,
   staticExamples |->
     IF IsDefined(inf.examples)
       THEN Some(mapValues(inf.examples[1], name, inf.encoding))
     ELSE IF IsDefined(inf.example)
       THEN Some("default" :> ExampleModel([value |-> Deref(inf.example[1])], name, inf.encoding))
     ELSE Undefined,
   shouldGenerateExamples |->
     ~IsDefined(inf.examples) /\ ~IsDefined(inf.example) /\ isJsonLike(name)]

\* samplerOptions with skipNonRequired taken from the flag alone
SamplerOptionsAnyDirection(this) ==
  [skipReadOnly |-> this.isRequestType,
   skipWriteOnly |-> ~this.isRequestType,
   skipNonRequired |-> this.onlyRequiredInSamples,
   maxSampleDepth |-> this.generatedSamplesMaxDepth]

\* samplerOptions (lines 100-105)
SamplerOptions(this) ==
  [skipReadOnly |-> this.isRequestType,
   skipWriteOnly |-> ~this.isRequestType,
   skipNonRequired |-> this.isRequestType /\ this.onlyRequiredInSamples,
   maxSampleDepth |-> this.generatedSamplesMaxDepth]

\* the sampler called inside a try/catch that turns an error into undefined
CallSamplerSwallow(this, resolvedSchema, fill, ph) ==
  LET v == Sample(resolvedSchema, SamplerOptions(this), fill, ph, 0) IN
    IF IsThrown(v) THEN Undef ELSE v

\* Sampler.sample(resolvedSchema as any, samplerOptions, this._parser.spec)
\* (lines 114, 137): called once, an error it raises is not caught
CallSampler(this, resolvedSchema, fill, ph) ==
  Sample(resolvedSchema, SamplerOptions(this), fill, ph, 0)

\* the root patch without the test that the sample is an object
RootPatchAlways(this, sample) ==
  IsDefined(SchemaNode(this.schema[1]).discriminatorProp)

\* whether the root-level discriminator is set on a sample (line 117)
RootPatchApplies(this, sample) ==
  IsDefined(SchemaNode(this.schema[1]).discriminatorProp) /\ IsJsObject(sample)

\* the root patch with the title of the root schema in place of the variant's
RootPatchOwnTitle(this, subSchema, sample) ==
  AssignProp(sample, SchemaNode(this.schema[1]).discriminatorProp[1],
             Str(SchemaNode(this.schema[1]).title))

\* sample[this.schema.discriminatorProp] = subSchema.title (line 118)
RootPatch(this, subSchema, sample) ==
  AssignProp(sample, SchemaNode(this.schema[1]).discriminatorProp[1],
             Str(SchemaNode(subSchema).title))

\* lines 117-119: the sample after the root patch
RootPatched(this, subSchema, sample) ==
  IF RootPatchApplies(this, sample) THEN RootPatch(this, subSchema, sample) ELSE sample

\* line 122: the nested patch of a variant's sample; not reached when the root
\* patch raised
NestedPatched(rooted, subSchema, sel) ==
  IF IsThrown(rooted) THEN rooted ELSE applyDiscriminatorValues(rooted, subSchema, sel)

\* the steps of the loop body for one subSchema, given what the sampler gave
VariantSteps(this, subSchema, sample) ==
  <<Step("resolve", subSchema), Step("sample", subSchema)>>
    \o (IF IsThrown(sample) THEN <<>>
        ELSE (IF RootPatchApplies(this, sample)
                THEN <<Step("rootPatch", subSchema)>> ELSE <<>>)
             \o (IF IsThrown(RootPatched(this, subSchema, sample))
                   THEN <<>> ELSE <<Step("patch", subSchema)>>))

\* lines 116-122: what the loop body makes of the sample
VariantPatched(this, sel, subSchema, sample) ==
  [value |-> IF IsThrown(sample) THEN sample
             ELSE NestedPatched(RootPatched(this, subSchema, sample), subSchema, sel),
   steps |-> VariantSteps(this, subSchema, sample),
   reads |-> ResolverReads(subSchema, sel)]

\* the loop body without the root patch and the nested patch
VariantSampleUnpatched(this, sel, subSchema, fill, ph) ==
  [value |-> CallSampler(this, getSchemaWithActiveDiscriminators(subSchema, sel), fill, ph),
   steps |-> <<Step("resolve", subSchema), Step("sample", subSchema)>>,
   reads |-> ResolverReads(subSchema, sel)]

\* the loop body resolving the root by its own activeOneOf in place of the
\* variant the loop is at
VariantSampleByRootIndex(this, sel, subSchema, fill, ph) ==
  VariantPatched(this, sel, subSchema,
                 CallSampler(this, getSchemaWithActiveDiscriminators(this.schema[1], sel),
                             fill, ph))

\* the body of the loop over this.schema.oneOf (lines 112-129) for one
\* subSchema: the sample after the root patch and the nested patch, or the error
VariantSample(this, sel, subSchema, fill, ph) ==
  VariantPatched(this, sel, subSchema,
                 CallSampler(this, getSchemaWithActiveDiscriminators(subSchema, sel), fill, ph))

\* an entry that is there already is kept: the first variant of a title wins
WithExampleKeepFirst(this, examples, title, value) ==
  [k \in (DOMAIN examples) \cup {title} |->
     IF k \in DOMAIN examples THEN examples[k]
     ELSE ExampleModel([value |-> value], this.name, this.encoding)]

\* examples[subSchema.title] = new ExampleModel(...) (lines 124-128)
WithExample(this, examples, title, value) ==
  [k \in (DOMAIN examples) \cup {title} |->
     IF k = title THEN ExampleModel([value |-> value], this.name, this.encoding)
     ELSE examples[k]]

\* the loop over this.schema.oneOf (lines 109-132), from variant i on;
\* VariantDone is the rest of the loop once variant i has run
RECURSIVE VariantLoop(_, _, _, _, _, _, _, _)
RECURSIVE VariantDone(_, _, _, _, _, _, _, _, _)
VariantDone(this, sel, fill, ph, i, examples, steps, reads, one) ==
  IF IsThrown(one.value)
    THEN Run(Raised(one.value.err), steps \o one.steps, reads \cup one.reads)
    ELSE VariantLoop(this, sel, fill, ph, i + 1,
                     WithExample(this, examples,
                                 SchemaNode(SchemaNode(this.schema[1]).oneOf[i]).title,
                                 one.value),
                     steps \o one.steps, reads \cup one.reads)

VariantLoop(this, sel, fill, ph, i, examples, steps, reads) ==
  IF i > Len(SchemaNode(this.schema[1]).oneOf)
    THEN Run(Returned(Some(examples)), steps, reads)
    ELSE VariantDone(this, sel, fill, ph, i, examples, steps, reads,
                     VariantSample(this, sel, SchemaNode(this.schema[1]).oneOf[i], fill, ph))

\* the single example named after its schema
SingleExampleNameFromTitle == SchemaNode(info.schema[1]).title

\* the name of the single generated example (line 143)
SingleExampleName == "default"

\* the single example without its nested patch
SinglePatchSkipped(sample, schema, sel) == sample

\* the nested patch of the single example (line 140)
SinglePatch(sample, schema, sel) == applyDiscriminatorValues(sample, schema, sel)

\* lines 142-144: the map of the single example
SingleMap(this, patched) ==
  IF IsThrown(patched)
    THEN Raised(patched.err)
    ELSE Returned(Some(SingleExampleName :>
                    ExampleModel([value |-> patched], this.name, this.encoding)))

\* lines 137-144, given what the sampler gave
SingleSampled(this, sel, schema, sample) ==
  IF IsThrown(sample)
    THEN Run(Raised(sample.err),
             <<Step("resolve", schema), Step("sample", schema)>>,
             ResolverReads(schema, sel))
    ELSE Run(SingleMap(this, SinglePatch(sample, schema, sel)),
             <<Step("resolve", schema), Step("sample", schema), Step("patch", schema)>>,
             ResolverReads(schema, sel))

\* no root-level oneOf: one example from the resolved schema (lines 135-144)
SingleExample(this, sel, fill, ph) ==
  SingleSampled(this, sel, this.schema[1],
                CallSampler(this, getSchemaWithActiveDiscriminators(this.schema[1], sel),
                            fill, ph))

\* generateExamples taking the loop for every root that has a oneOf list, an
\* empty one too
generateExamplesAnyOneOf(this, sel, fill, ph) ==
  IF ~IsDefined(this.schema) \/ ~this.parser
    THEN Run(Returned(Undefined), <<>>, {})
  ELSE IF SchemaNode(this.schema[1]).kind = "oneOf"
    THEN VariantLoop(this, sel, fill, ph, 1, <<>>, <<>>, {})
  ELSE SingleExample(this, sel, fill, ph)

\* generateExamples (lines 95-145)
generateExamples(this, sel, fill, ph) ==
  IF ~IsDefined(this.schema) \/ ~this.parser
    THEN Run(Returned(Undefined), <<>>, {})
  ELSE IF Len(SchemaNode(this.schema[1]).oneOf) > 0
    THEN VariantLoop(this, sel, fill, ph, 1, <<>>, <<>>, {})
  ELSE SingleExample(this, sel, fill, ph)

\* lines 90-92: the collector's walk, which reads every activeOneOf of the
\* tree, then the generation
Collected(this, generated) ==
  Run(generated.out,
      <<Step("collect", this.schema[1])>> \o generated.steps,
      collectActiveDiscriminatorSelections(this.schema[1]) \cup generated.reads)

\* `examples` without the test of _shouldGenerateExamples (line 84)
examplesIgnoreFlag(this, sel, fill, ph) ==
  IF IsDefined(this.staticExamples)
    THEN Run(Returned(this.staticExamples), <<>>, {})
  ELSE IF ~IsDefined(this.schema) \/ ~this.parser
    THEN Run(Returned(Undefined), <<>>, {})
  ELSE Collected(this, generateExamples(this, sel, fill, ph))

\* `examples` without the call of the collector (line 90)
examplesNoCollect(this, sel, fill, ph) ==
  IF IsDefined(this.staticExamples)
    THEN Run(Returned(this.staticExamples), <<>>, {})
  ELSE IF ~this.shouldGenerateExamples \/ ~IsDefined(this.schema) \/ ~this.parser
    THEN Run(Returned(Undefined), <<>>, {})
  ELSE generateExamples(this, sel, fill, ph)

\* `examples` with the generation guard tested before the static examples
examplesGuardFirst(this, sel, fill, ph) ==
  IF ~this.shouldGenerateExamples \/ ~IsDefined(this.schema) \/ ~this.parser
    THEN Run(Returned(Undefined), <<>>, {})
  ELSE IF IsDefined(this.staticExamples)
    THEN Run(Returned(this.staticExamples), <<>>, {})
  ELSE Collected(this, generateExamples(this, sel, fill, ph))

\* get examples() (lines 77-93)
examples(this, sel, fill, ph) ==
  IF IsDefined(this.staticExamples)
    THEN Run(Returned(this.staticExamples), <<>>, {})
  ELSE IF ~this.shouldGenerateExamples \/ ~IsDefined(this.schema) \/ ~this.parser
    THEN Run(Returned(Undefined), <<>>, {})
  ELSE Collected(this, generateExamples(this, sel, fill, ph))

(***************************************************************************)
(* The state machine: construction, reads of `examples` through the MobX   *)
(* computed, selection writes, observers coming and going                  *)
(***************************************************************************)
ExamplesInputs == {Undefined, Some("first" :> [value |-> Str("given")])}
ExampleInputs == {Undefined, Some(Ref("#/components/examples/pet"))}
Infos ==
  [schema : {Undefined} \cup {Some(r) : r \in RootSchemas},
   examples : ExamplesInputs,
   example : ExampleInputs,
   encoding : {Undefined}]
Options ==
  [onlyRequiredInSamples : BOOLEAN, generatedSamplesMaxDepth : 0 .. MaxDepth]

\* the arguments of the constructor
Arguments ==
  [parser : BOOLEAN, name : MediaNames, isRequestType : BOOLEAN,
   info : Infos, options : Options]

\* the options and the direction reach nothing but the sampler call, so the
\* arguments that never get there are tried with one setting of them
ReachesSampler(a) ==
  /\ a.parser /\ isJsonLike(a.name) /\ IsDefined(a.info.schema)
  /\ ~IsDefined(a.info.examples) /\ ~IsDefined(a.info.example)

Inputs ==
  {a \in Arguments :
     \/ ReachesSampler(a)
     \/ (~a.isRequestType /\ ~a.options.onlyRequiredInSamples
           /\ a.options.generatedSamplesMaxDepth = MaxDepth)}

\* the cells of a media type: the oneOf nodes of its schema tree
Cells(this) == IF IsDefined(this.schema) THEN OneOfNodes(this.schema[1]) ELSE {}

\* the discriminator properties of the schema trees
DiscriminatorProps ==
  {SchemaNode(n).discriminatorProp[1] :
     n \in {m \in NodeIds : IsDefined(SchemaNode(m).discriminatorProp)}}

\* the discriminator fields of a value, each with the path it sits at
RECURSIVE DiscriminatorFields(_, _)
DiscriminatorFields(v, path) ==
  CASE v.t = "obj" ->
         {<<path \o <<k>>, v.f[k]>> : k \in (DOMAIN v.f) \cap DiscriminatorProps}
           \cup UNION {DiscriminatorFields(v.f[k], path \o <<k>>) :
                         k \in (DOMAIN v.f) \ DiscriminatorProps}
    [] v.t = "arr" ->
         UNION {DiscriminatorFields(v.e[i], path \o <<i>>) : i \in DOMAIN v.e}
    [] OTHER -> {}

\* what two reads are compared on: the outcome's kind, the artifact names and
\* every artifact's discriminator fields
View(out) ==
  [status |-> out.status,
   fields |-> IF out.status = "ok" /\ IsDefined(out.val)
                THEN [k \in DOMAIN out.val[1] |->
                        DiscriminatorFields(out.val[1][k].value, <<>>)]
                ELSE <<>>]

NotCompared == [view |-> View(NotRead), same |-> TRUE]

\* the root schema is a oneOf with variants
RootIsOneOf == IsDefined(info.schema) /\ Len(SchemaNode(info.schema[1]).oneOf) > 0

\* the cells the last resolution went through: those on the active path
ActiveCells ==
  IF RootIsOneOf
    THEN UNION {ResolverReads(SchemaNode(info.schema[1]).oneOf[i], activeOneOf) :
                  i \in DOMAIN SchemaNode(info.schema[1]).oneOf}
    ELSE ResolverReads(info.schema[1], activeOneOf)

\* `by` of the computed: the cell whose write made the cached outcome stale, and
\* whether the last resolution went through that cell
NotStale == [cell |-> "none", onPath |-> FALSE]

\* the computed with no observer: nothing cached, nothing subscribed
NotObserved ==
  [observed |-> FALSE, valid |-> FALSE, value |-> NotRead, deps |-> {}, by |-> NotStale]

\* no walk of the collector is followed
NotWalking == [stack |-> <<>>, read |-> {}, done |-> FALSE]

\* no JsonViewer is mounted: no node, an empty expandedPathsRef, prevDataRef
\* undefined (lines 92-95)
NoViewer ==
  [mounted |-> FALSE, data |-> Undefined, prevData |-> Undefined, dom |-> <<>>,
   expandedPaths |-> {}, fresh |-> <<>>, toggled |-> <<>>, op |-> "none"]

\* state after `new MediaTypeModel(parser, name, isRequestType, info, options)`;
\* with no parser, line 59 (parser.deref) raises and no object exists
Init ==
  \E a \in Inputs :
    /\ a.parser \/ IsDefined(a.info.examples) \/ ~IsDefined(a.info.example)
    /\ info = a.info
    /\ self = Constructor(a.parser, a.name, a.isRequestType, a.info, a.options)
    /\ activeOneOf = [n \in Cells(self) |-> 0]
    /\ memo = NotObserved
    /\ lastRead = NotRead
    /\ trace = <<>>
    /\ prevRead = NotCompared
    /\ everRaised = FALSE
    /\ walk = NotWalking
    /\ viewer = NoViewer

\* what the computed gives without running the getter
Cached == Run(memo.value, <<>>, memo.deps)

\* what a read is compared with: the read before it, if no write came between
Compared(before, now) ==
  IF before = NotRead THEN NotCompared
  ELSE [view |-> View(before), same |-> now = before]

\* a read whose run subscribes to no cell: a cached getter in place of a
\* computed over observables
ReadExamplesUntracked ==
  \E r \in (IF memo.observed /\ memo.valid
              THEN {Cached}
              ELSE {examples(self, activeOneOf, fill, ph) :
                      fill \in Fills, ph \in Placeholders}) :
    /\ lastRead' = r.out
    /\ trace' = r.steps
    /\ memo' = IF memo.observed
                 THEN [memo EXCEPT !.valid = TRUE, !.value = r.out,
                                   !.deps = {}, !.by = NotStale]
                 ELSE memo
    /\ prevRead' = Compared(lastRead, r.out)
    /\ everRaised' = (everRaised \/ r.out.status = "throw")
    /\ UNCHANGED <<info, self, activeOneOf, walk, viewer>>

\* a read that puts every stale activeOneOf back to 0 as it goes
ReadExamplesNormalising ==
  \E r \in (IF memo.observed /\ memo.valid
              THEN {Cached}
              ELSE {examples(self, activeOneOf, fill, ph) :
                      fill \in Fills, ph \in Placeholders}) :
    /\ lastRead' = r.out
    /\ trace' = r.steps
    /\ memo' = IF memo.observed
                 THEN [memo EXCEPT !.valid = TRUE, !.value = r.out,
                                   !.deps = r.reads, !.by = NotStale]
                 ELSE memo
    /\ prevRead' = Compared(lastRead, r.out)
    /\ everRaised' = (everRaised \/ r.out.status = "throw")
    /\ activeOneOf' = [n \in DOMAIN activeOneOf |->
                         IF activeOneOf[n] < Len(SchemaNode(n).oneOf)
                           THEN activeOneOf[n] ELSE 0]
    /\ UNCHANGED <<info, self, walk, viewer>>

\* a read of `examples`: the computed returns its cached outcome when it is
\* observed and no cell it read has changed; otherwise the getter runs, and
\* its outcome (value or error) is cached, with the cells the run read, if the
\* computed is observed
ReadExamples ==
  \E r \in (IF memo.observed /\ memo.valid
              THEN {Cached}
              ELSE {examples(self, activeOneOf, fill, ph) :
                      fill \in Fills, ph \in Placeholders}) :
    /\ lastRead' = r.out
    /\ trace' = r.steps
    /\ memo' = IF memo.observed
                 THEN [memo EXCEPT !.valid = TRUE, !.value = r.out,
                                   !.deps = r.reads, !.by = NotStale]
                 ELSE memo
    /\ prevRead' = Compared(lastRead, r.out)
    /\ everRaised' = (everRaised \/ r.out.status = "throw")
    /\ UNCHANGED <<info, self, activeOneOf, walk, viewer>>

\* a selection write that runs the getter at once, as a reaction would, in
\* place of leaving it to the next read
ActivateOneOfEager ==
  \E n \in DOMAIN activeOneOf : \E idx \in IndexRange(n) :
    \E r \in {examples(self, [activeOneOf EXCEPT ![n] = idx], fill, ph) :
                fill \in Fills, ph \in Placeholders} :
      /\ activeOneOf' = [activeOneOf EXCEPT ![n] = idx]
      /\ memo' = IF memo.observed
                   THEN [memo EXCEPT !.valid = TRUE, !.value = r.out,
                                     !.deps = r.reads, !.by = NotStale]
                   ELSE memo
      /\ trace' = r.steps
      /\ lastRead' = NotRead
      /\ prevRead' = NotCompared
      /\ UNCHANGED <<info, self, everRaised, walk, viewer>>

\* SchemaModel.activateOneOf(idx) on a node of the tree: a write to an
\* observable; a changed value invalidates every computed that read the cell
ActivateOneOf ==
  \E n \in DOMAIN activeOneOf : \E idx \in IndexRange(n) :
    /\ activeOneOf' = [activeOneOf EXCEPT ![n] = idx]
    /\ memo' = IF memo.valid /\ n \in memo.deps /\ idx # activeOneOf[n]
                 THEN [memo EXCEPT !.valid = FALSE, !.value = NotRead,
                                   !.by = [cell |-> n, onPath |-> n \in ActiveCells]]
                 ELSE memo
    /\ lastRead' = NotRead
    /\ prevRead' = NotCompared
    /\ UNCHANGED <<info, self, trace, everRaised, walk, viewer>>

\* an observer (a rendering component) starts to observe the computed
BecomeObserved ==
  /\ ~memo.observed
  /\ memo' = [memo EXCEPT !.observed = TRUE]
  /\ UNCHANGED <<info, self, activeOneOf, lastRead, trace, prevRead, everRaised, walk, viewer>>

\* the last observer leaves: the computed drops its cache and its dependencies
BecomeUnobserved ==
  /\ memo.observed
  /\ memo' = NotObserved
  /\ UNCHANGED <<info, self, activeOneOf, lastRead, trace, prevRead, everRaised, walk, viewer>>

Next == ReadExamples \/ ActivateOneOf \/ BecomeObserved \/ BecomeUnobserved

Spec == Init /\ [][Next]_vars

(***************************************************************************)
(* The collector followed node by node: a depth-first walk with a stack of  *)
(* the nodes still to visit                                                 *)
(***************************************************************************)
\* the elements of a finite set, one after the other
RECURSIVE SeqOf(_)
SeqOf(S) ==
  IF S = {} THEN <<>>
  ELSE <<CHOOSE x \in S : TRUE>> \o SeqOf(S \ {CHOOSE x \in S : TRUE})

\* the nodes under the fields of an object node, field by field
FieldNodes(n, names) == [i \in DOMAIN names |-> SchemaNode(n).properties[names[i]].node]

\* a walk that goes into the active variant of a oneOf node only
CollectorChildrenActiveOnly(n) ==
  FieldNodes(n, SeqOf(DOMAIN SchemaNode(n).properties))
    \o SchemaNode(n).items
    \o (IF SchemaNode(n).oneOf = <<>> THEN <<>> ELSE <<ActiveVariant(n, activeOneOf)>>)

\* the nodes the collector goes into from a node: its fields, its items and
\* every one of its variants
CollectorChildren(n) ==
  FieldNodes(n, SeqOf(DOMAIN SchemaNode(n).properties))
    \o SchemaNode(n).items
    \o SchemaNode(n).oneOf

\* the collector is called on the schema of a media type that generates, under
\* any selection state
InitCollector ==
  \E a \in {x \in Inputs : ReachesSampler(x)} :
    /\ info = a.info
    /\ self = Constructor(a.parser, a.name, a.isRequestType, a.info, a.options)
    /\ activeOneOf \in [Cells(self) -> UNION {IndexRange(n) : n \in Cells(self)}]
    /\ \A n \in Cells(self) : activeOneOf[n] \in IndexRange(n)
    /\ memo = NotObserved
    /\ lastRead = NotRead
    /\ trace = <<>>
    /\ prevRead = NotCompared
    /\ everRaised = FALSE
    /\ walk = [stack |-> <<a.info.schema[1]>>, read |-> {}, done |-> FALSE]
    /\ viewer = NoViewer

\* the collector visits the node on top of the stack: it reads the node's
\* activeOneOf if the node is a oneOf, and goes on into the node's children
CollectorVisit ==
  /\ walk.stack # <<>>
  /\ walk' = [stack |-> CollectorChildren(Head(walk.stack)) \o Tail(walk.stack),
              read |-> walk.read \cup (IF SchemaNode(Head(walk.stack)).kind = "oneOf"
                                         THEN {Head(walk.stack)} ELSE {}),
              done |-> FALSE]
  /\ UNCHANGED <<info, self, activeOneOf, memo, lastRead, trace, prevRead,
                 everRaised, viewer>>

\* nothing is left to visit: the collector returns
CollectorReturn ==
  /\ walk.stack = <<>> /\ ~walk.done
  /\ walk' = [walk EXCEPT !.done = TRUE]
  /\ UNCHANGED <<info, self, activeOneOf, memo, lastRead, trace, prevRead,
                 everRaised, viewer>>

NextCollector == CollectorVisit \/ CollectorReturn

\* the walk is synchronous code: it goes on until it returns
SpecCollector == InitCollector /\ [][NextCollector]_vars /\ WF_vars(NextCollector)

(***************************************************************************)
(* JsonViewer: the data it shows, the collapsible elements of the DOM that  *)
(* jsonToHTML rendered for the data, and the refs of the component          *)
(***************************************************************************)
\* a text is a sequence of characters; only the quote and the dot are told
\* apart from the others
Quote == "\""
Dot == "."

\* where a collapsible element sits: the <li> elements above it, outermost
\* first, each the field of an object (with the text of its .property span)
\* or the item of an array (with its index among the children of ul.array)
Field(key) == [property |-> Some(<<Quote>> \o key \o <<Quote>>), index |-> 0]
Item(i) == [property |-> Undefined, index |-> i]

\* the data the viewer is given, and for each of them the collapsible elements
\* of its rendering in document order (the first is the root's)
Docs == {"nested", "dotted", "listed"}
Collapsibles(data) ==
  CASE data = "nested" -> << <<>>, <<Field(<<"a">>)>>, <<Field(<<"a">>), Field(<<"b">>)>> >>
    [] data = "dotted" -> << <<>>, <<Field(<<"a", Dot, "b">>)>>, <<Field(<<"c">>)>> >>
    [] data = "listed" -> << <<>>, <<Item(0)>>, <<Item(0), Field(<<"a">>)>> >>

\* text.replace(/"/g, '') (line 32)
RECURSIVE StripQuotes(_)
StripQuotes(text) ==
  IF text = <<>> THEN <<>>
  ELSE (IF Head(text) = Quote THEN <<>> ELSE <<Head(text)>>) \o StripQuotes(Tail(text))

\* the part one <li> adds to the path (lines 30-39)
PathPart(li) ==
  IF IsDefined(li.property) /\ li.property[1] # <<>>
    THEN StripQuotes(li.property[1])
    ELSE <<"[", li.index, "]">>

\* parts.join('.') (line 44)
RECURSIVE Join(_)
Join(parts) ==
  IF parts = <<>> THEN <<>>
  ELSE IF Len(parts) = 1 THEN parts[1]
  ELSE parts[1] \o <<Dot>> \o Join(Tail(parts))

\* buildPathFromElement (lines 25-45)
buildPathFromElement(collapsible) ==
  Join([i \in DOMAIN collapsible |-> PathPart(collapsible[i])])

\* the state of one collapsible element: whether its parent has the class
\* collapsed, and the aria-label of its collapser ("rendered": as jsonToHTML
\* wrote it)
Element(collapsed, label) == [collapsed |-> collapsed, label |-> label]

\* what jsonToHTML renders: the elements of the data, each collapsed or not
Rendered(data, flags) ==
  [i \in DOMAIN Collapsibles(data) |-> Element(flags[i], "rendered")]

\* collectExpandedPaths (lines 50-67)
collectExpandedPaths(data, dom) ==
  {buildPathFromElement(Collapsibles(data)[i]) :
     i \in {j \in DOMAIN dom :
              ~dom[j].collapsed /\ buildPathFromElement(Collapsibles(data)[j]) # <<>>}}

\* restoreExpandedPaths that also collapses the elements whose path is not
\* among the saved ones
restoreExactly(data, dom, paths) ==
  [i \in DOMAIN dom |->
     IF buildPathFromElement(Collapsibles(data)[i]) \in paths
       THEN Element(FALSE, "collapse")
       ELSE Element(TRUE, "expand")]

\* restoreExpandedPaths (lines 74-89)
restoreExpandedPaths(data, dom, paths) ==
  IF paths = {} THEN dom
  ELSE [i \in DOMAIN dom |->
          IF buildPathFromElement(Collapsibles(data)[i]) \in paths
            THEN Element(FALSE, "collapse")
            ELSE dom[i]]

\* the MutationObserver of lines 102-110: after class attributes were written
\* its callback stores the expanded paths of the DOM; a write that left the
\* class as it was may or may not be reported
Observed(data, before, after, written, paths) ==
  IF written = {} THEN {paths}
  ELSE IF \E i \in written : before[i].collapsed # after[i].collapsed
    THEN {collectExpandedPaths(data, after)}
  ELSE {collectExpandedPaths(data, after), paths}

\* the elements restoreExpandedPaths writes the class of
Restored(data, paths) ==
  {i \in DOMAIN Collapsibles(data) :
     buildPathFromElement(Collapsibles(data)[i]) \in paths}

\* the viewer as the model checks it starts: not mounted
InitViewer ==
  /\ info = [schema |-> Undefined, examples |-> Undefined, example |-> Undefined,
             encoding |-> Undefined]
  /\ self = Constructor(TRUE, "application/json", FALSE, info,
                        [onlyRequiredInSamples |-> FALSE,
                         generatedSamplesMaxDepth |-> MaxDepth])
  /\ activeOneOf = <<>>
  /\ memo = NotObserved
  /\ lastRead = NotRead
  /\ trace = <<>>
  /\ prevRead = NotCompared
  /\ everRaised = FALSE
  /\ walk = NotWalking
  /\ viewer = NoViewer

\* first render (lines 91-125, 145-153): jsonToHTML renders the data, the
\* layout effect stores the data in prevDataRef without restoring, and the
\* effect of line 113 collects the expanded paths
ViewerMount ==
  /\ ~viewer.mounted
  /\ \E data \in Docs : \E flags \in [DOMAIN Collapsibles(data) -> BOOLEAN] :
       viewer' = [mounted |-> TRUE, data |-> Some(data), prevData |-> Some(data),
                  dom |-> Rendered(data, flags),
                  expandedPaths |-> collectExpandedPaths(data, Rendered(data, flags)),
                  fresh |-> <<>>, toggled |-> <<>>, op |-> "mount"]
  /\ UNCHANGED <<info, self, activeOneOf, memo, lastRead, trace, prevRead,
                 everRaised, walk>>

\* the layout effect of lines 119-125 on the DOM just rendered: it restores
\* the saved paths unless this is the first render or the data is the same
LayoutEffect(data, dom, paths, prevData) ==
  IF IsDefined(prevData) /\ prevData # Some(data)
    THEN restoreExpandedPaths(data, dom, paths)
    ELSE dom

\* the elements the layout effect writes the class of
LayoutWrites(data, paths, prevData) ==
  IF IsDefined(prevData) /\ prevData # Some(data) /\ paths # {}
    THEN Restored(data, paths)
    ELSE {}

\* a render with other data (lines 119-125, 145-153): jsonToHTML renders it
\* afresh, then the layout effect restores the saved paths
ViewerDataChanged ==
  /\ viewer.mounted
  /\ \E data \in Docs \ {viewer.data[1]} :
       \E flags \in [DOMAIN Collapsibles(data) -> BOOLEAN] :
         \E paths \in Observed(data, Rendered(data, flags),
                               LayoutEffect(data, Rendered(data, flags),
                                            viewer.expandedPaths, viewer.prevData),
                               LayoutWrites(data, viewer.expandedPaths, viewer.prevData),
                               viewer.expandedPaths) :
           viewer' = [mounted |-> TRUE, data |-> Some(data), prevData |-> Some(data),
                      dom |-> LayoutEffect(data, Rendered(data, flags),
                                           viewer.expandedPaths, viewer.prevData),
                      expandedPaths |-> paths,
                      fresh |-> Rendered(data, flags), toggled |-> <<>>, op |-> "data"]
  /\ UNCHANGED <<info, self, activeOneOf, memo, lastRead, trace, prevRead,
                 everRaised, walk>>

\* a render with the same data: the HTML is the same, the layout effect does
\* not restore (line 121)
ViewerRerender ==
  /\ viewer.mounted
  /\ viewer' = [viewer EXCEPT !.fresh = <<>>, !.toggled = <<>>, !.op = "same"]
  /\ UNCHANGED <<info, self, activeOneOf, memo, lastRead, trace, prevRead,
                 everRaised, walk>>

\* the DOM after expandAll (lines 160-167)
expandAll(dom) == [i \in DOMAIN dom |-> Element(FALSE, "collapse")]

\* the DOM after collapseAll (lines 169-178): all elements but the first
collapseAll(dom) ==
  [i \in DOMAIN dom |-> IF i = 1 THEN dom[i] ELSE Element(TRUE, "expand")]

\* collapseElement that only ever collapses
collapseElementOnly(dom, i) == [dom EXCEPT ![i] = Element(TRUE, "expand")]

\* the DOM after collapseElement on the collapser of element i (lines 180-192)
collapseElement(dom, i) ==
  [dom EXCEPT ![i] = IF dom[i].collapsed THEN Element(FALSE, "collapse")
                     ELSE Element(TRUE, "expand")]

\* a click on "Expand all"
ViewerExpandAll ==
  /\ viewer.mounted
  /\ \E paths \in Observed(viewer.data[1], viewer.dom, expandAll(viewer.dom),
                           DOMAIN viewer.dom, viewer.expandedPaths) :
       viewer' = [viewer EXCEPT !.dom = expandAll(viewer.dom), !.expandedPaths = paths,
                                !.fresh = <<>>, !.toggled = <<>>, !.op = "expandAll"]
  /\ UNCHANGED <<info, self, activeOneOf, memo, lastRead, trace, prevRead,
                 everRaised, walk>>

\* a click on "Collapse all"
ViewerCollapseAll ==
  /\ viewer.mounted
  /\ \E paths \in Observed(viewer.data[1], viewer.dom, collapseAll(viewer.dom),
                           (DOMAIN viewer.dom) \ {1}, viewer.expandedPaths) :
       viewer' = [viewer EXCEPT !.dom = collapseAll(viewer.dom), !.expandedPaths = paths,
                                !.fresh = <<>>, !.toggled = <<>>, !.op = "collapseAll"]
  /\ UNCHANGED <<info, self, activeOneOf, memo, lastRead, trace, prevRead,
                 everRaised, walk>>

\* a click on the collapser of an element (lines 194-196)
ViewerClickCollapser ==
  /\ viewer.mounted
  /\ \E i \in DOMAIN viewer.dom :
       \E paths \in Observed(viewer.data[1], viewer.dom, collapseElement(viewer.dom, i),
                             {i}, viewer.expandedPaths) :
         viewer' = [viewer EXCEPT !.dom = collapseElement(viewer.dom, i),
                                  !.expandedPaths = paths, !.fresh = <<>>,
                                  !.toggled = <<i, viewer.dom[i],
                                                viewer.op = "toggle" /\ viewer.toggled[1] = i>>,
                                  !.op = "toggle"]
  /\ UNCHANGED <<info, self, activeOneOf, memo, lastRead, trace, prevRead,
                 everRaised, walk>>

NextViewer ==
  \/ ViewerMount
  \/ ViewerDataChanged
  \/ ViewerRerender
  \/ ViewerExpandAll
  \/ ViewerCollapseAll
  \/ ViewerClickCollapser

SpecViewer == InitViewer /\ [][NextViewer]_vars

(***************************************************************************)
(* Vocabulary of the properties                                            *)
(***************************************************************************)
\* static examples were supplied at construction
Static == IsDefined(info.examples) \/ IsDefined(info.example)

\* the generation pipeline is what answers a read
Generating ==
  ~Static /\ isJsonLike(self.name) /\ IsDefined(info.schema) /\ self.parser

\* the last read returned a map of examples
ReturnedMap == lastRead.status = "ok" /\ IsDefined(lastRead.val)
LastMap == lastRead.val[1]

\* an index outside the variant list
Stale(id, sel) == sel[id] \notin 0 .. (Len(SchemaNode(id).oneOf) - 1)

\* the variant whose tag a oneOf node must show: the selected one, and the
\* first one under a stale index
Expected(id, sel) ==
  IF Stale(id, sel) THEN SchemaNode(id).oneOf[1] ELSE SchemaNode(id).oneOf[sel[id] + 1]

HasField(v, k, x) == v.t = "obj" /\ k \in DOMAIN v.f /\ v.f[k] = x

\* every object of the value that stands for a oneOf node (for a stale one only,
\* when onlyStale) carries that node's discriminator field with the expected tag
RECURSIVE TagsAgree(_, _, _, _)
TagsAgree(value, id, sel, onlyStale) ==
  LET n == SchemaNode(id) IN
    CASE n.kind = "oneOf" /\ n.oneOf # <<>> ->
           /\ (value.t = "obj" /\ IsDefined(n.discriminatorProp)
                 /\ (onlyStale => Stale(id, sel)))
                => HasField(value, n.discriminatorProp[1],
                            Str(SchemaNode(Expected(id, sel)).title))
           /\ TagsAgree(value, Expected(id, sel), sel, onlyStale)
      [] n.kind = "object" /\ value.t = "obj" ->
           \A k \in (DOMAIN n.properties) \cap (DOMAIN value.f) :
             TagsAgree(value.f[k], n.properties[k].node, sel, onlyStale)
      [] n.kind = "array" /\ value.t = "arr" ->
           \A i \in DOMAIN value.e : TagsAgree(value.e[i], n.items[1], sel, onlyStale)
      [] OTHER -> TRUE

\* the schema node an artifact of the last map was generated from
ArtifactSchema(k) ==
  IF RootIsOneOf
    THEN CHOOSE v \in {SchemaNode(info.schema[1]).oneOf[i] :
                         i \in DOMAIN SchemaNode(info.schema[1]).oneOf} :
           SchemaNode(v).title = k
    ELSE info.schema[1]

(***************************************************************************)
(* Properties                                                              *)
(***************************************************************************)
\* C1: when static examples were supplied (an examples map, or one example,
\* which is stored under the name "default"), no read ever runs a step of the
\* generation pipeline, and every read, after any selection writes, returns
\* exactly the supplied examples: the same names with the same values; this
\* whatever the schema and the media name are
C1_StaticExamplesVerbatim ==
  Static =>
    /\ trace = <<>>
    /\ lastRead # NotRead =>
         /\ ReturnedMap
         /\ IF IsDefined(info.examples)
              THEN /\ DOMAIN LastMap = DOMAIN info.examples[1]
                   /\ \A k \in DOMAIN LastMap :
                        LastMap[k].value = info.examples[1][k].value
              ELSE /\ DOMAIN LastMap = {"default"}
                   /\ LastMap["default"].value = Deref(info.example[1])

\* C1 witness: a read after a selection write, on a JSON media type that has a
\* schema and supplied examples, with the computed observed
C1_Witness ==
  /\ Static /\ isJsonLike(self.name) /\ info.schema = Some("Pet") /\ self.parser
  /\ activeOneOf["Toy"] = 1
  /\ memo.observed /\ memo.valid
  /\ ReturnedMap

\* the root is a oneOf with a discriminator property and variants of distinct titles
RootDiscriminated ==
  /\ RootIsOneOf
  /\ IsDefined(SchemaNode(info.schema[1]).discriminatorProp)
  /\ \A i, j \in DOMAIN SchemaNode(info.schema[1]).oneOf :
       SchemaNode(SchemaNode(info.schema[1]).oneOf[i]).title
         = SchemaNode(SchemaNode(info.schema[1]).oneOf[j]).title => i = j

RootDiscriminatorProp == SchemaNode(info.schema[1]).discriminatorProp[1]
RootTags ==
  {SchemaNode(SchemaNode(info.schema[1]).oneOf[i]).title :
     i \in DOMAIN SchemaNode(info.schema[1]).oneOf}

\* C2 as stated: with a discriminated root, no static examples and generation
\* enabled, a read that returns gives one artifact per variant, keyed by the
\* variant's tag, and the value of every artifact has the root discriminator
\* field equal to its key
C2_EveryArtifactTagged ==
  (Generating /\ RootDiscriminated /\ lastRead.status = "ok") =>
    /\ IsDefined(lastRead.val)
    /\ DOMAIN LastMap = RootTags
    /\ \A k \in DOMAIN LastMap :
         HasField(LastMap[k].value, RootDiscriminatorProp, Str(k))

\* C2 amended: with a discriminated root, no static examples and generation
\* enabled, a read that returns (the sampler raised no error) gives one artifact
\* per variant, keyed by the variant's tag, and every artifact whose sampled
\* value is an object has the root discriminator field equal to its key, also
\* after the nested patch; an artifact whose sample is not an object (a scalar
\* variant) is left as sampled
C2_ObjectArtifactsTagged ==
  (Generating /\ RootDiscriminated /\ lastRead.status = "ok") =>
    /\ IsDefined(lastRead.val)
    /\ DOMAIN LastMap = RootTags
    /\ \A k \in DOMAIN LastMap :
         IF IsJsObject(LastMap[k].value)
           THEN /\ RootDiscriminatorProp \in DOMAIN LastMap[k].value.f
                /\ LastMap[k].value.f[RootDiscriminatorProp] = Str(k)
           ELSE LastMap[k].value.t = "str"

\* C2 witness: a read over the root oneOf Pet returned the three artifacts; Dog
\* carries its root tag and a nested tag set by the nested patch, Fish is a scalar
C2_Witness ==
  /\ Generating /\ info.schema = Some("Pet") /\ ReturnedMap
  /\ DOMAIN LastMap = {"Cat", "Dog", "Fish"}
  /\ HasField(LastMap["Dog"].value, "petType", Str("Dog"))
  /\ HasField(LastMap["Dog"].value, "toy", LastMap["Dog"].value.f["toy"])
  /\ HasField(LastMap["Dog"].value.f["toy"], "toyType", Str("Bone"))
  /\ LastMap["Fish"].value.t = "str"

\* C3: with a root that is no oneOf, no static examples and generation enabled,
\* a read that returns (the sampler raised no error) gives a map of exactly one
\* artifact, named "default", whatever the nested selections are
C3_SingleDefaultArtifact ==
  (Generating /\ ~RootIsOneOf /\ lastRead.status = "ok") =>
    /\ IsDefined(lastRead.val)
    /\ DOMAIN LastMap = {"default"}

\* C3 witness: such a read with both nested selections moved off their default
C3_Witness ==
  /\ Generating /\ info.schema = Some("Pets") /\ ReturnedMap
  /\ activeOneOf["Pet"] = 1 /\ activeOneOf["Toy"] = 1
  /\ DOMAIN LastMap = {"default"}
  /\ LastMap["default"].value.t = "arr"

\* C4: a read that returns a map reflects the selections as they are at the
\* read, never older ones: in every artifact, every object that stands for a
\* oneOf node carries the discriminator field with the tag of the variant
\* selected now; so after a write to a nested activeOneOf the next read shows
\* the newly selected variant's tag at the nested position
C4_ReadReflectsSelection ==
  (Generating /\ ReturnedMap) =>
    \A k \in DOMAIN LastMap :
      TagsAgree(LastMap[k].value, ArtifactSchema(k), activeOneOf, FALSE)

\* C4 witness: nested selections written (Pet to Dog, Toy to Bone, the root
\* is no cell), then a read through the observed computed, whose artifact shows
\* both tags at their nested positions
C4_Witness ==
  /\ Generating /\ info.schema = Some("Pets") /\ ReturnedMap
  /\ memo.observed /\ memo.valid /\ memo.value = lastRead /\ trace # <<>>
  /\ activeOneOf["Pet"] = 1 /\ activeOneOf["Toy"] = 1
  /\ LastMap["default"].value.t = "arr"
  /\ Len(LastMap["default"].value.e) = 1
  /\ HasField(LastMap["default"].value.e[1], "petType", Str("Dog"))
  /\ "toy" \in DOMAIN LastMap["default"].value.e[1].f
  /\ HasField(LastMap["default"].value.e[1].f["toy"], "toyType", Str("Bone"))

\* C5: while the computed holds a cached map, a write that changes the
\* activeOneOf of a oneOf node inside a variant that is not active (a cell the
\* last resolution did not go through) makes the cached map stale, so that the
\* next read runs the pipeline again; and a cached map that is not stale shows
\* the selections as they are now, so a read after such a write and a switch of
\* the parent into that variant shows both selections
C5_InactiveWriteInvalidates ==
  /\ [][\A n \in DOMAIN activeOneOf :
          (/\ Generating /\ memo.observed /\ memo.valid
           /\ n # info.schema[1] /\ n \notin ActiveCells
           /\ activeOneOf'[n] # activeOneOf[n])
            => ~memo'.valid]_vars
  /\ []((Generating /\ memo.observed /\ memo.valid /\ memo.value.status = "ok") =>
         \A k \in DOMAIN memo.value.val[1] :
           TagsAgree(memo.value.val[1][k].value, ArtifactSchema(k), activeOneOf, FALSE))

\* C5 witness: a map was cached while Toy lay inside a variant that was not
\* active, and a write to Toy made it stale
C5_Witness ==
  /\ Generating /\ info.schema = Some("Pets")
  /\ memo.observed /\ ~memo.valid
  /\ memo.by = [cell |-> "Toy", onPath |-> FALSE]
  /\ activeOneOf["Toy"] = 1

\* C6: two consecutive reads with no selection write between them agree on the
\* outcome's kind, the artifact names and every discriminator field of every
\* artifact, at every nesting level, also when the pipeline ran again and the
\* sampler chose other free-form scalars
C6_ConsecutiveReadsAgree ==
  prevRead # NotCompared => prevRead.view = View(lastRead)

\* C6 witness: the second of two such reads over the root oneOf gave another
\* value than the first (other scalars), with discriminator fields at two levels
C6_Witness ==
  /\ Generating /\ info.schema = Some("Pet") /\ ReturnedMap
  /\ prevRead # NotCompared /\ ~prevRead.same
  /\ prevRead.view = View(lastRead)
  /\ <<<<"petType">>, Str("Dog")>> \in prevRead.view.fields["Dog"]
  /\ <<<<"toy", "toyType">>, Str("Ball")>> \in prevRead.view.fields["Dog"]

\* C7: when the activeOneOf of a oneOf node on the active path is out of range,
\* the read does not fail: it returns a map, and in every artifact the object
\* that stands for that node carries the tag of the node's first variant
C7_StaleIndexFirstVariant ==
  (Generating /\ lastRead # NotRead
     /\ \E n \in ActiveCells : Stale(n, activeOneOf)) =>
    /\ ReturnedMap
    /\ \A k \in DOMAIN LastMap :
         TagsAgree(LastMap[k].value, ArtifactSchema(k), activeOneOf, TRUE)

\* C7 witness: Pet holds an index past its three variants and the read shows
\* the tag of its first variant, Cat
C7_Witness ==
  /\ Generating /\ info.schema = Some("Pets") /\ ReturnedMap
  /\ activeOneOf["Pet"] = 3
  /\ Len(LastMap["default"].value.e) = 1
  /\ HasField(LastMap["default"].value.e[1], "petType", Str("Cat"))

\* C8: with no static examples, when the media name is not JSON-like, or there
\* is no schema, or there is no parser, no read runs the collector, the sampler
\* or any other step, and every read returns undefined without an error
C8_NoExamplesWithoutContext ==
  (~Static /\ (~isJsonLike(self.name) \/ ~IsDefined(info.schema) \/ ~self.parser)) =>
    /\ trace = <<>>
    /\ lastRead # NotRead => lastRead = Returned(Undefined)

\* C8 witness: a read of a non-JSON media type that has a schema and a parser,
\* after a selection write
C8_Witness ==
  /\ ~Static /\ ~isJsonLike(self.name) /\ info.schema = Some("Pets") /\ self.parser
  /\ activeOneOf["Pet"] = 1
  /\ lastRead = Returned(Undefined)

\* the value does not have the structure the schema describes: an object or an
\* array is missing, null or a scalar (cut off by maxSampleDepth, or dropped)
RECURSIVE Mismatch(_, _, _)
Mismatch(value, id, sel) ==
  LET n == SchemaNode(id) IN
    CASE n.kind = "oneOf" /\ n.oneOf # <<>> -> Mismatch(value, Expected(id, sel), sel)
      [] n.kind = "object" ->
           \/ value.t # "obj"
           \/ \E k \in DOMAIN n.properties :
                IF k \in DOMAIN value.f
                  THEN Mismatch(value.f[k], n.properties[k].node, sel)
                  ELSE SchemaNode(n.properties[k].node).kind \in {"object", "array", "oneOf"}
      [] n.kind = "array" ->
           \/ value.t # "arr"
           \/ value.e = <<>>
           \/ \E i \in DOMAIN value.e : Mismatch(value.e[i], n.items[1], sel)
      [] OTHER -> FALSE

\* C9: the patching never writes a discriminator field into a value that is no
\* object: a read fails only by an error of the sampler, never by the patching;
\* the root patch runs only for variants whose sample is an object; and in an
\* artifact whose value does not match the schema (a subtree missing, null or
\* scalar) the objects that are there still carry their tags
C9_PatchSkipsNonObjects ==
  (Generating /\ lastRead # NotRead) =>
    /\ lastRead.status = "throw" => lastRead.err = "GenerationFailure"
    /\ ReturnedMap =>
         /\ \A i \in DOMAIN trace :
              trace[i].op = "rootPatch" =>
                IsJsObject(LastMap[SchemaNode(trace[i].node).title].value)
         /\ \A k \in DOMAIN LastMap :
              (Mismatch(LastMap[k].value, ArtifactSchema(k), activeOneOf)
                 \/ ~IsJsObject(LastMap[k].value))
                => TagsAgree(LastMap[k].value, ArtifactSchema(k), activeOneOf, FALSE)

\* C9 witness: maxDepth 0 over the root oneOf: Dog's nested toy is cut off to
\* null and Dog still got its root tag; Fish was sampled as a scalar and no root
\* patch ran for it
C9_Witness ==
  /\ Generating /\ info.schema = Some("Pet") /\ ReturnedMap
  /\ self.generatedSamplesMaxDepth = 0
  /\ HasField(LastMap["Dog"].value, "toy", Null)
  /\ HasField(LastMap["Dog"].value, "petType", Str("Dog"))
  /\ LastMap["Fish"].value.t = "str"
  /\ Step("rootPatch", "Dog") \in {trace[i] : i \in DOMAIN trace}
  /\ Step("rootPatch", "Fish") \notin {trace[i] : i \in DOMAIN trace}

\* the schemas a read hands to the resolver and the sampler
SampledSchemas ==
  IF RootIsOneOf
    THEN {SchemaNode(info.schema[1]).oneOf[i] : i \in DOMAIN SchemaNode(info.schema[1]).oneOf}
    ELSE {info.schema[1]}

\* the sampler raises an error under the selections as they are
SamplerRaises ==
  \E s \in SampledSchemas : \E fill \in Fills, ph \in Placeholders :
    IsThrown(Sample(getSchemaWithActiveDiscriminators(s, activeOneOf),
                    SamplerOptions(self), fill, ph, 0))

\* C10: a read raises an error exactly when the sampler raises one under the
\* selections of that read, and the error is the sampler's; in such a read the
\* sampler was called at most once per schema and nothing ran after the failing
\* call; the read leaves every activeOneOf as it was; and a read under
\* selections the sampler accepts, also after an earlier failure, returns a map
C10_SamplerErrorPropagates ==
  /\ []((Generating /\ lastRead # NotRead) =>
          /\ (lastRead.status = "throw") <=> SamplerRaises
          /\ lastRead.status = "throw" =>
               /\ lastRead.err = "GenerationFailure"
               /\ trace # <<>> => trace[Len(trace)].op = "sample"
          /\ \A i, j \in DOMAIN trace :
               (trace[i].op = "sample" /\ trace[i] = trace[j]) => i = j
          /\ ~SamplerRaises => ReturnedMap)
  /\ [][lastRead'.status = "throw" => activeOneOf' = activeOneOf]_vars

\* C10 witness: a read raised, a selection was written, and the read after it,
\* through the observed computed, ran the pipeline and returned a map
C10_Witness ==
  /\ Generating /\ everRaised /\ ReturnedMap
  /\ memo.observed /\ memo.valid /\ memo.value = lastRead
  /\ trace # <<>>

\* the value has a field of that name
HasKey(v, k) == v.t = "obj" /\ k \in DOMAIN v.f

\* C11: the options handed to the sampler come from the direction and the
\* only-required flag alone: skipReadOnly = isRequestType, skipWriteOnly =
\* ~isRequestType, skipNonRequired = isRequestType /\ onlyRequiredInSamples; so
\* exactly one of skipReadOnly and skipWriteOnly is set and skipNonRequired is
\* never set for a response; and the returned artifacts show it: a read-only
\* field is sampled exactly for a response, a write-only optional field exactly
\* for a request without the flag, a plain optional field unless the request
\* has the flag
C11_SamplerOptionsFromDirection ==
  Generating =>
    /\ SamplerOptions(self).skipReadOnly = self.isRequestType
    /\ SamplerOptions(self).skipWriteOnly = ~self.isRequestType
    /\ SamplerOptions(self).skipNonRequired
         = (self.isRequestType /\ self.onlyRequiredInSamples)
    /\ SamplerOptions(self).skipReadOnly # SamplerOptions(self).skipWriteOnly
    /\ ~self.isRequestType => ~SamplerOptions(self).skipNonRequired
    /\ (ReturnedMap /\ info.schema = Some("Pet")) =>
         /\ HasKey(LastMap["Cat"].value, "id") <=> ~self.isRequestType
         /\ HasKey(LastMap["Cat"].value, "secret")
              <=> (self.isRequestType /\ ~self.onlyRequiredInSamples)
         /\ (HasKey(LastMap["Dog"].value, "toy")
               /\ HasKey(LastMap["Dog"].value.f["toy"], "toyType")
               /\ activeOneOf["Toy"] # 1) =>
              (HasKey(LastMap["Dog"].value.f["toy"], "size")
                 <=> ~(self.isRequestType /\ self.onlyRequiredInSamples))

\* C11 witness: a response with the only-required flag set returned Dog with its
\* toy Ball, whose optional field was sampled, and Cat with its read-only field
C11_Witness ==
  /\ Generating /\ info.schema = Some("Pet") /\ ReturnedMap
  /\ ~self.isRequestType /\ self.onlyRequiredInSamples
  /\ activeOneOf["Toy"] = 0
  /\ HasKey(LastMap["Dog"].value, "toy")
  /\ HasKey(LastMap["Dog"].value.f["toy"], "size")
  /\ HasKey(LastMap["Cat"].value, "id")
  /\ ~HasKey(LastMap["Cat"].value, "secret")

\* what a read may give when the root's own cell holds idx and every other
\* cell is as it is
OutcomesWithRootAt(idx) ==
  {examples(self, [activeOneOf EXCEPT ![info.schema[1]] = idx], fill, ph).out :
     fill \in Fills, ph \in Placeholders}

\* C12: over a root oneOf the loop forces every variant in turn: whatever the
\* root's own activeOneOf holds, what a read gives (the artifact names, every
\* artifact's root discriminator, the whole outcome) is one of the outcomes the
\* read has with the root's cell at 0; and in every artifact the oneOf nodes
\* below the root show the variant their own activeOneOf selects now
C12_RootIndexIgnored ==
  (Generating /\ RootIsOneOf /\ lastRead # NotRead) =>
    /\ activeOneOf[info.schema[1]] # 0 => lastRead \in OutcomesWithRootAt(0)
    /\ ReturnedMap =>
         /\ DOMAIN LastMap = RootTags
         /\ \A k \in DOMAIN LastMap :
              /\ IsJsObject(LastMap[k].value)
                   => HasField(LastMap[k].value, RootDiscriminatorProp, Str(k))
              /\ TagsAgree(LastMap[k].value, ArtifactSchema(k), activeOneOf, FALSE)

\* C12 witness: the root's own cell points at Fish and the nested Toy at Bone;
\* the read gave all three artifacts, each with its own root tag, and Dog's
\* nested toy shows Bone
C12_Witness ==
  /\ Generating /\ info.schema = Some("Pet") /\ ReturnedMap
  /\ activeOneOf["Pet"] = 2 /\ activeOneOf["Toy"] = 1
  /\ DOMAIN LastMap = {"Cat", "Dog", "Fish"}
  /\ HasField(LastMap["Cat"].value, "petType", Str("Cat"))
  /\ HasField(LastMap["Dog"].value, "petType", Str("Dog"))
  /\ HasKey(LastMap["Dog"].value, "toy")
  /\ HasField(LastMap["Dog"].value.f["toy"], "toyType", Str("Bone"))

\* the nodes a resolved schema is made of, and the kinds in it
RECURSIVE ResolvedNodes(_)
ResolvedNodes(r) ==
  {r.from}
    \cup (IF r.kind = "object"
            THEN UNION {ResolvedNodes(r.properties[k].schema) : k \in DOMAIN r.properties}
            ELSE {})
    \cup (IF r.kind = "array" THEN ResolvedNodes(r.items) ELSE {})

RECURSIVE ResolvedKinds(_)
ResolvedKinds(r) ==
  {r.kind}
    \cup (IF r.kind = "object"
            THEN UNION {ResolvedKinds(r.properties[k].schema) : k \in DOMAIN r.properties}
            ELSE {})
    \cup (IF r.kind = "array" THEN ResolvedKinds(r.items) ELSE {})

\* the nodes reached from id through fields, items and, at a oneOf node, the
\* one variant its activeOneOf selects (the first under a stale index)
RECURSIVE OnActivePath(_, _)
OnActivePath(id, sel) ==
  IF SchemaNode(id).kind = "oneOf"
    THEN (IF SchemaNode(id).oneOf = <<>> THEN {id} ELSE OnActivePath(Expected(id, sel), sel))
    ELSE {id} \cup UNION {OnActivePath(c, sel) : c \in Children(id)}

\* C13: in a read that ran the pipeline, every resolved schema handed to the
\* sampler has no oneOf node in it, and is made only of nodes reached through
\* active variants (the first variant under a stale index): no subtree of a
\* variant that is not active is in it
C13_ResolvedShapeConcrete ==
  (Generating /\ lastRead # NotRead) =>
    \A s \in SampledSchemas :
      /\ "oneOf" \notin ResolvedKinds(getSchemaWithActiveDiscriminators(s, activeOneOf))
      /\ ResolvedNodes(getSchemaWithActiveDiscriminators(s, activeOneOf))
           \subseteq OnActivePath(s, activeOneOf)

\* C13 witness: a read over Pets with Dog and Bone selected: the resolved
\* schema holds Dog and Bone and neither Cat, Fish nor Ball
C13_Witness ==
  /\ Generating /\ info.schema = Some("Pets") /\ ReturnedMap /\ trace # <<>>
  /\ activeOneOf["Pet"] = 1 /\ activeOneOf["Toy"] = 1
  /\ {"Dog", "Bone"} \subseteq
       ResolvedNodes(getSchemaWithActiveDiscriminators("Pets", activeOneOf))
  /\ {"Cat", "Fish", "Ball", "Pet", "Toy"}
       \cap ResolvedNodes(getSchemaWithActiveDiscriminators("Pets", activeOneOf)) = {}

\* C14: a step that is a read (it leaves an outcome in lastRead) changes no
\* activeOneOf and nothing of the schema tree or the media type, whether the
\* pipeline ran, the cache answered or the sampler raised; and a step that
\* changes an activeOneOf is a selection write, which runs no pipeline step
C14_ReadLeavesSelections ==
  [][/\ lastRead' # NotRead =>
          (activeOneOf' = activeOneOf /\ info' = info /\ self' = self)
     /\ activeOneOf' # activeOneOf => (lastRead' = NotRead /\ trace' = trace)]_vars

\* C14 witness: the pipeline ran over Pets while Pet held a stale index and Toy
\* pointed at Bone; the read returned and both cells are as they were
C14_Witness ==
  /\ Generating /\ info.schema = Some("Pets") /\ ReturnedMap /\ trace # <<>>
  /\ memo.observed /\ memo.valid
  /\ activeOneOf = ("Pet" :> 3 @@ "Toy" :> 1)

\* C15: on the schema trees (finite, without cycles) the collector's walk
\* returns, and when it has returned it has read the activeOneOf of every oneOf
\* node under the root, through fields, items and all variants, the active
\* ones and the others; these are the cells the getter's run is subscribed to
C15_CollectorTerminates ==
  /\ <>walk.done
  /\ [](walk.done =>
          /\ walk.read = OneOfNodes(info.schema[1])
          /\ walk.read = collectActiveDiscriminatorSelections(info.schema[1]))

\* C15 witness: the walk over Pets has returned with Fish active in Pet, and it
\* has read Toy, which lies inside the variant Dog
C15_Witness ==
  /\ walk.done /\ info.schema = Some("Pets")
  /\ activeOneOf["Pet"] = 2
  /\ walk.read = {"Pet", "Toy"}

\* the root is a oneOf node with no variant
RootIsEmptyOneOf ==
  /\ IsDefined(info.schema)
  /\ SchemaNode(info.schema[1]).kind = "oneOf"
  /\ SchemaNode(info.schema[1]).oneOf = <<>>

\* C16: a root oneOf with an empty variant list takes the single path: a read
\* that ran the pipeline ran the collector, then resolve, sample and patch once,
\* on the root; and a read that returns gives a map, never an empty one, with
\* the one key "default"
C16_EmptyOneOfSingleArtifact ==
  (Generating /\ RootIsEmptyOneOf /\ lastRead # NotRead) =>
    /\ trace # <<>> =>
         trace = <<Step("collect", info.schema[1]), Step("resolve", info.schema[1]),
                   Step("sample", info.schema[1]), Step("patch", info.schema[1])>>
    /\ lastRead.status = "ok" =>
         /\ IsDefined(lastRead.val)
         /\ DOMAIN LastMap = {"default"}

\* C16 witness: the pipeline ran over the root Any, whose oneOf is empty, and
\* the read returned the one artifact
C16_Witness ==
  /\ Generating /\ info.schema = Some("Any") /\ ReturnedMap
  /\ Len(trace) = 4
  /\ DOMAIN LastMap = {"default"}

\* the indexes of the root variants that carry the title k
Carriers(k) ==
  {i \in DOMAIN SchemaNode(info.schema[1]).oneOf :
     SchemaNode(SchemaNode(info.schema[1]).oneOf[i]).title = k}

\* the last root variant, in the order of the list, that carries the title k
LastCarrier(k) ==
  SchemaNode(info.schema[1]).oneOf[CHOOSE i \in Carriers(k) : \A j \in Carriers(k) : j <= i]

\* some root variants share a title
RootTitlesCollide ==
  RootIsOneOf /\ Cardinality(RootTags) < Len(SchemaNode(info.schema[1]).oneOf)

\* C17: when root variants share a title, a read that returns gives a map with
\* exactly one entry per distinct title, so fewer entries than variants, and the
\* entry of every title is the artifact of the last variant, in the order of
\* the list, that carries the title
C17_SharedTitleLastWins ==
  (Generating /\ RootTitlesCollide /\ lastRead.status = "ok") =>
    /\ IsDefined(lastRead.val)
    /\ DOMAIN LastMap = RootTags
    /\ Cardinality(DOMAIN LastMap) < Len(SchemaNode(info.schema[1]).oneOf)
    /\ \A k \in DOMAIN LastMap :
         LastMap[k].value \in
           {VariantSample(self, activeOneOf, LastCarrier(k), fill, ph).value :
              fill \in Fills, ph \in Placeholders}

\* C17 witness: over the root Twins, whose two variants are both titled Cat,
\* the read returned the one entry Cat, and it holds the artifact of the second
\* variant (it has the field purr, which only that variant has)
C17_Witness ==
  /\ Generating /\ info.schema = Some("Twins") /\ ReturnedMap
  /\ DOMAIN LastMap = {"Cat"}
  /\ HasKey(LastMap["Cat"].value, "purr")
  /\ ~HasKey(LastMap["Cat"].value, "name")
  /\ HasField(LastMap["Cat"].value, "petType", Str("Cat"))

\* C18: nothing runs until a read: a selection write runs no step of the
\* pipeline and computes no outcome, it only makes a cached one stale; steps
\* run only in a read, and a read is one step, with no write inside it; so every
\* outcome a read gives, all artifacts of a fan-out together, is an outcome of
\* the getter under the one selection state of the read
C18_PullDrivenAtomic ==
  /\ [][/\ activeOneOf' # activeOneOf =>
             /\ trace' = trace /\ lastRead' = NotRead
             /\ memo'.valid => (memo.valid /\ memo' = memo)
        /\ trace' # trace => (lastRead' # NotRead /\ activeOneOf' = activeOneOf)]_vars
  /\ []((Generating /\ ReturnedMap) =>
          lastRead \in {examples(self, activeOneOf, fill, ph).out :
                          fill \in Fills, ph \in Placeholders})

\* C18 witness: a selection write on Pet has made the cached outcome stale and
\* nothing has run since: no outcome is there, and the steps on record are
\* those of the read before the write
C18_Witness ==
  /\ Generating /\ info.schema = Some("Pets")
  /\ memo.observed /\ ~memo.valid /\ memo.by.cell = "Pet"
  /\ lastRead = NotRead /\ trace # <<>>
  /\ activeOneOf["Pet"] = 1

\* the path of element i of the data shown
PathOf(v, i) == buildPathFromElement(Collapsibles(v.data[1])[i])

\* C19: in a render with other data than before (not the first render) every
\* element whose path is among the expanded paths saved before the render is
\* expanded afterwards; the restore collapses nothing that jsonToHTML rendered
\* expanded and leaves the other elements as rendered; with no saved path the
\* DOM stays as rendered; and a render with the same data leaves the DOM alone
C19_RestoreExpandsSavedPaths ==
  [][/\ (viewer.mounted /\ viewer'.op = "data") =>
          /\ \A i \in DOMAIN viewer'.dom :
               /\ PathOf(viewer', i) \in viewer.expandedPaths => ~viewer'.dom[i].collapsed
               /\ viewer'.dom[i].collapsed => viewer'.fresh[i].collapsed
               /\ PathOf(viewer', i) \notin viewer.expandedPaths =>
                    viewer'.dom[i] = viewer'.fresh[i]
          /\ viewer.expandedPaths = {} => viewer'.dom = viewer'.fresh
     /\ viewer'.op = "same" => viewer'.dom = viewer.dom
     /\ viewer'.op = "mount" =>
          \A i \in DOMAIN viewer'.dom : viewer'.dom[i].label = "rendered"]_vars

\* C19 witness: the data changed to "dotted"; its field "a.b" was rendered
\* collapsed and the restore expanded it (the path a.b was saved), while the
\* field c stayed collapsed as rendered
C19_Witness ==
  /\ viewer.mounted /\ viewer.op = "data" /\ viewer.data = Some("dotted")
  /\ viewer.fresh[2].collapsed /\ viewer.dom[2] = Element(FALSE, "collapse")
  /\ viewer.dom[3] = Element(TRUE, "rendered")

\* C20: from any state of the elements, "Expand all" leaves every element
\* expanded; "Collapse all" leaves every element but the first collapsed and the
\* first as it was; a click on a collapser inverts its element and nothing
\* else, with the label "expand" when collapsed and "collapse" when expanded;
\* and the second of two clicks in a row on one collapser puts all elements'
\* collapsed state back to what it was before the first
C20_FoldingButtons ==
  [][/\ viewer'.op = "expandAll" =>
          \A i \in DOMAIN viewer'.dom : viewer'.dom[i] = Element(FALSE, "collapse")
     /\ viewer'.op = "collapseAll" =>
          /\ \A i \in (DOMAIN viewer'.dom) \ {1} : viewer'.dom[i] = Element(TRUE, "expand")
          /\ viewer'.dom[1] = viewer.dom[1]
     /\ viewer'.op = "toggle" =>
          /\ \A i \in DOMAIN viewer'.dom :
               IF i = viewer'.toggled[1]
                 THEN /\ viewer'.dom[i].collapsed = ~viewer.dom[i].collapsed
                      /\ viewer'.dom[i].label
                           = (IF viewer'.dom[i].collapsed THEN "expand" ELSE "collapse")
                 ELSE viewer'.dom[i] = viewer.dom[i]
          /\ viewer'.toggled[3] =>
               viewer'.dom[viewer'.toggled[1]].collapsed = viewer.toggled[2].collapsed]_vars

\* C20 witness: the collapser of the second element was clicked twice in a
\* row; the element is collapsed again, labelled "expand"
C20_Witness ==
  /\ viewer.mounted /\ viewer.op = "toggle"
  /\ viewer.toggled[1] = 2 /\ viewer.toggled[3]
  /\ viewer.toggled[2] = Element(FALSE, "collapse")
  /\ viewer.dom[2] = Element(TRUE, "expand")

====
